---- MODULE Spec2Model ----
(***************************************************************************)
(* The recursive-descent parser of the Equity contract language            *)
(* (compiler/parse.go).  The scan layer is a set of pure operators over    *)
(* (buf, offset); the parse layer is a machine whose call stack holds one  *)
(* frame per active parseX function.                                       *)
(*                                                                         *)
(* A buffer is a string; a byte of it is a string of length one.  Offsets  *)
(* are 0-based as in the source: At(buf, i) is buf[i].                     *)
(***************************************************************************)
EXTENDS Integers, Sequences, FiniteSets, TLC

VARIABLES buf, pos, stack, returned, thrown, err, contracts, pc, diag

vars == <<buf, pos, stack, returned, thrown, err, contracts, pc, diag>>

----------------------------------------------------------------------------
(* Bytes *)

At(b, i) == SubSeq(b, i + 1, i + 1)

\* buf[from:to]
Slice(b, from, to) == SubSeq(b, from + 1, to)

Chars(s) == {SubSeq(s, i, i) : i \in 1..Len(s)}

DigitChars == "0123456789"

LowerChars == "abcdefghijklmnopqrstuvwxyz"

UpperChars == "ABCDEFGHIJKLMNOPQRSTUVWXYZ"

DigitSet == Chars(DigitChars)

LetterSet == Chars(LowerChars) \cup Chars(UpperChars)

HexSet == DigitSet \cup Chars("abcdef") \cup Chars("ABCDEF")

\* unicode.IsDigit on a byte
IsDigit(c) == c \in DigitSet

\* unicode.IsSpace on a byte ('\v', U+0085 and U+00A0 have no TLA+ spelling)
IsSpace(c) == c \in {" ", "\t", "\n", "\r", "\f"}

isHexDigit(c) == c \in HexSet

isIDChar(c, initial) ==
    IF c \in LetterSet THEN TRUE
    ELSE IF c = "_" THEN TRUE
    ELSE IF initial THEN FALSE
    ELSE IsDigit(c)

\* The printable ASCII characters from ' ' (32) to '_' (95), and from 'a' (97)
\* to '~' (126); a string of the module cannot hold '`' (96).
PrintableLow ==
    " !\"#$%&'()*+,-./0123456789:;<=>?@ABCDEFGHIJKLMNOPQRSTUVWXYZ[\\]^_"

PrintableHigh == "abcdefghijklmnopqrstuvwxyz{|}~"

\* The value of a byte.
Ord(c) ==
    IF c = "\t" THEN 9
    ELSE IF c = "\n" THEN 10
    ELSE IF c = "\f" THEN 12
    ELSE IF c = "\r" THEN 13
    ELSE IF \E i \in 1..Len(PrintableLow) : SubSeq(PrintableLow, i, i) = c
         THEN 31 + (CHOOSE i \in 1..Len(PrintableLow) : SubSeq(PrintableLow, i, i) = c)
         ELSE 96 + (CHOOSE i \in 1..Len(PrintableHigh) : SubSeq(PrintableHigh, i, i) = c)

DigitVal(c) == (CHOOSE i \in 1..10 : SubSeq(DigitChars, i, i) = c) - 1

HexVal(c) ==
    IF IsDigit(c) THEN DigitVal(c)
    ELSE IF c \in Chars("abcdef")
         THEN 9 + (CHOOSE i \in 1..6 : SubSeq("abcdef", i, i) = c)
         ELSE 9 + (CHOOSE i \in 1..6 : SubSeq("ABCDEF", i, i) = c)

----------------------------------------------------------------------------
(* Scan functions: (buf, offset) to a new offset, negative for no match.   *)
(* A scanner that can panic returns panic = TRUE with the parserErr's      *)
(* offset and format.                                                      *)

NoMatch == -1

RECURSIVE skipLoop(_, _, _)
skipLoop(b, offset, inComment) ==
    IF offset >= Len(b) THEN offset
    ELSE LET c == At(b, offset) IN
         IF inComment
         THEN skipLoop(b, offset + 1, c # "\n")
         ELSE IF c = "/" /\ offset < Len(b) - 1 /\ At(b, offset + 1) = "/"
              THEN skipLoop(b, offset + 2, TRUE)
              ELSE IF ~IsSpace(c) THEN offset
                   ELSE skipLoop(b, offset + 1, FALSE)

skipWsAndComments(b, offset) == skipLoop(b, offset, FALSE)

RECURSIVE idEnd(_, _, _)
idEnd(b, offset, i) ==
    IF i < Len(b) /\ isIDChar(At(b, i), i = offset) THEN idEnd(b, offset, i + 1) ELSE i

scanIdentifier(b, offset0) ==
    LET offset == skipWsAndComments(b, offset0)
        i == idEnd(b, offset, offset)
    IN IF i = offset THEN [name |-> "", pos |-> NoMatch]
       ELSE [name |-> Slice(b, offset, i), pos |-> i]

\* bytes.HasPrefix(buf[offset:], prefix)
HasPrefix(b, offset, prefix) ==
    /\ offset + Len(prefix) <= Len(b)
    /\ Slice(b, offset, offset + Len(prefix)) = prefix

scanTok(b, offset0, s) ==
    LET offset == skipWsAndComments(b, offset0)
    IN IF HasPrefix(b, offset, s) THEN offset + Len(s) ELSE NoMatch

scanKeyword(b, offset, keyword) ==
    LET r == scanIdentifier(b, offset)
    IN IF r.pos < 0 THEN NoMatch
       ELSE IF r.name # keyword THEN NoMatch
       ELSE r.pos

(* strconv.ParseInt(s, 10, 64).  A 64-bit value is kept as its sign and   *)
(* its decimal magnitude without leading zeros, so that the range check   *)
(* is the one of the 64-bit type.                                         *)

MaxInt64Mag == "9223372036854775807"

MinInt64Mag == "9223372036854775808"

RECURSIVE stripZeros(_)
stripZeros(d) ==
    IF Len(d) > 1 /\ SubSeq(d, 1, 1) = "0" THEN stripZeros(SubSeq(d, 2, Len(d))) ELSE d

RECURSIVE digitsLE(_, _)
digitsLE(a, c) ==
    IF Len(a) = 0 THEN TRUE
    ELSE LET x == DigitVal(SubSeq(a, 1, 1))
             y == DigitVal(SubSeq(c, 1, 1))
         IN IF x < y THEN TRUE
            ELSE IF x > y THEN FALSE
            ELSE digitsLE(SubSeq(a, 2, Len(a)), SubSeq(c, 2, Len(c)))

\* a <= c for two magnitudes without leading zeros
MagLE(a, c) == Len(a) < Len(c) \/ (Len(a) = Len(c) /\ digitsLE(a, c))

ParseInt(s) ==
    LET neg == Len(s) > 0 /\ SubSeq(s, 1, 1) = "-"
        digits == IF neg THEN SubSeq(s, 2, Len(s)) ELSE s
        mag == stripZeros(digits)
    IN IF Len(digits) = 0 \/ \E i \in 1..Len(digits) : ~IsDigit(SubSeq(digits, i, i))
       THEN [err |-> TRUE, n |-> [neg |-> FALSE, mag |-> "0"]]
       ELSE IF ~MagLE(mag, IF neg THEN MinInt64Mag ELSE MaxInt64Mag)
       THEN [err |-> TRUE, n |-> [neg |-> neg, mag |-> IF neg THEN MinInt64Mag ELSE MaxInt64Mag]]
       ELSE [err |-> FALSE, n |-> [neg |-> neg /\ mag # "0", mag |-> mag]]

\* The digit loop of scanIntLiteral: the end of the digits, or NoMatch at a 0x/0X.
RECURSIVE intLoop(_, _)
intLoop(b, i) ==
    IF i < Len(b) /\ IsDigit(At(b, i))
    THEN IF At(b, i) = "0" /\ i < Len(b) - 1 /\ At(b, i + 1) \in {"x", "X"}
         THEN NoMatch
         ELSE intLoop(b, i + 1)
    ELSE i

\* A scan that keeps the number ParseInt hands back and drops its error.
scanIntLiteralUnchecked(b, offset0) ==
    LET start == skipWsAndComments(b, offset0)
        offset == IF start < Len(b) /\ At(b, start) = "-" THEN start + 1 ELSE start
        i == intLoop(b, offset)
        none == [val |-> [neg |-> FALSE, mag |-> "0"], pos |-> NoMatch]
    IN IF i < 0 THEN none
       ELSE IF i > offset THEN [val |-> ParseInt(Slice(b, start, i)).n, pos |-> i]
       ELSE none

scanIntLiteral(b, offset0) ==
    LET start == skipWsAndComments(b, offset0)
        offset == IF start < Len(b) /\ At(b, start) = "-" THEN start + 1 ELSE start
        i == intLoop(b, offset)
        none == [val |-> [neg |-> FALSE, mag |-> "0"], pos |-> NoMatch]
    IN IF i < 0 THEN none
       ELSE IF i > offset
       THEN LET r == ParseInt(Slice(b, start, i))
            IN IF r.err THEN none ELSE [val |-> r.n, pos |-> i]
       ELSE none

scanEscape(c) ==
    IF c \in {"'", "\"", "\\"} THEN [c |-> Ord(c), ok |-> TRUE]
    ELSE IF c = "b" THEN [c |-> 8, ok |-> TRUE]
    ELSE IF c = "f" THEN [c |-> 12, ok |-> TRUE]
    ELSE IF c = "n" THEN [c |-> 10, ok |-> TRUE]
    ELSE IF c = "r" THEN [c |-> 13, ok |-> TRUE]
    ELSE IF c = "t" THEN [c |-> 9, ok |-> TRUE]
    ELSE IF c = "v" THEN [c |-> 11, ok |-> TRUE]
    ELSE [c |-> Ord(c), ok |-> FALSE]

\* A scanner's result: a value and a new offset, or a panic with a parserErr.
Scanned(val, p) == [val |-> val, pos |-> p, panic |-> FALSE, off |-> 0, format |-> ""]

parseErr(val, offset, format) ==
    [val |-> val, pos |-> NoMatch, panic |-> TRUE, off |-> offset, format |-> format]

RECURSIVE strLoop(_, _, _, _)
strLoop(b, offset, i, byteBuf) ==
    IF i >= Len(b) THEN parseErr(<<>>, offset, "unterminated string literal")
    ELSE IF (At(b, offset) = "'" /\ At(b, i) = "'") \/ (At(b, offset) = "\"" /\ At(b, i) = "\"")
    THEN Scanned(byteBuf, i + 1)
    ELSE IF At(b, i) = "\\" /\ i < Len(b) - 1 /\ scanEscape(At(b, i + 1)).ok
    THEN strLoop(b, offset, i + 2, Append(byteBuf, scanEscape(At(b, i + 1)).c))
    ELSE strLoop(b, offset, i + 1, Append(byteBuf, Ord(At(b, i))))

scanStrLiteral(b, offset0) ==
    LET offset == skipWsAndComments(b, offset0)
    IN IF offset >= Len(b) \/ ~(At(b, offset) = "'" \/ At(b, offset) = "\"")
       THEN Scanned(<<>>, NoMatch)
       ELSE strLoop(b, offset, offset + 1, <<>>)

\* hex.Decode
RECURSIVE hexBytes(_)
hexBytes(s) ==
    IF Len(s) < 2 THEN <<>>
    ELSE <<16 * HexVal(SubSeq(s, 1, 1)) + HexVal(SubSeq(s, 2, 2))>>
         \o hexBytes(SubSeq(s, 3, Len(s)))

hexDecode(s) ==
    IF Len(s) % 2 = 1 \/ \E i \in 1..Len(s) : ~isHexDigit(SubSeq(s, i, i))
    THEN [err |-> TRUE, bytes |-> <<>>]
    ELSE [err |-> FALSE, bytes |-> hexBytes(s)]

\* The digit-pair loop of scanBytesLiteral.
RECURSIVE bytesLoop(_, _, _)
bytesLoop(b, offset, i) ==
    IF i >= Len(b) THEN Scanned(<<>>, i)
    ELSE IF i = Len(b) - 1
    THEN parseErr(<<>>, offset, "odd number of digits in hex literal")
    ELSE IF ~isHexDigit(At(b, i)) THEN Scanned(<<>>, i)
    ELSE IF ~isHexDigit(At(b, i + 1))
    THEN parseErr(<<>>, offset, "odd number of digits in hex literal")
    ELSE bytesLoop(b, offset, i + 2)

scanBytesLiteral(b, offset0) ==
    LET offset == skipWsAndComments(b, offset0)
    IN IF offset + 4 >= Len(b) THEN Scanned(<<>>, NoMatch)
       ELSE IF At(b, offset) # "0" \/ (At(b, offset + 1) # "x" /\ At(b, offset + 1) # "X")
       THEN Scanned(<<>>, NoMatch)
       ELSE IF ~isHexDigit(At(b, offset + 2)) \/ ~isHexDigit(At(b, offset + 3))
       THEN Scanned(<<>>, NoMatch)
       ELSE LET l == bytesLoop(b, offset, offset + 4)
            IN IF l.panic THEN l
               ELSE LET d == hexDecode(Slice(b, offset + 2, l.pos))
                    IN IF d.err THEN Scanned(<<>>, NoMatch) ELSE Scanned(d.bytes, l.pos)

scanBoolLiteral(b, offset0) ==
    LET offset == skipWsAndComments(b, offset0)
    IN IF offset >= Len(b) THEN [val |-> FALSE, pos |-> NoMatch]
       ELSE LET newOffset == scanKeyword(b, offset, "true")
            IN IF newOffset < 0
               THEN IF scanKeyword(b, offset, "false") < 0
                    THEN [val |-> FALSE, pos |-> NoMatch]
                    ELSE [val |-> FALSE, pos |-> scanKeyword(b, offset, "false")]
               ELSE [val |-> TRUE, pos |-> newOffset]

(* Expressions of the AST *)

integerLiteral(n) == [kind |-> "integerLiteral", val |-> n]

bytesLiteral(bytes) == [kind |-> "bytesLiteral", val |-> bytes]

booleanLiteral(v) == [kind |-> "booleanLiteral", val |-> v]

varRef(name) == [kind |-> "varRef", name |-> name]

listExpr(elts) == [kind |-> "listExpr", elts |-> elts]

unaryExpr(op, expr) == [kind |-> "unaryExpr", op |-> op, expr |-> expr]

binaryExpr(left, right, op) ==
    [kind |-> "binaryExpr", left |-> left, right |-> right, op |-> op]

callExpr(fn, args) == [kind |-> "callExpr", fn |-> fn, args |-> args]

NoExpr == [kind |-> "nil"]

scanLiteralExpr(b, offset0) ==
    LET offset == skipWsAndComments(b, offset0)
        intliteral == scanIntLiteral(b, offset)
    IN IF intliteral.pos >= 0 THEN Scanned(integerLiteral(intliteral.val), intliteral.pos)
       ELSE LET strliteral == scanStrLiteral(b, offset)
            IN IF strliteral.panic THEN strliteral
               ELSE IF strliteral.pos >= 0
               THEN Scanned(bytesLiteral(strliteral.val), strliteral.pos)
               ELSE LET bytesliteral == scanBytesLiteral(b, offset)
                    IN IF bytesliteral.panic THEN bytesliteral
                       ELSE IF bytesliteral.pos >= 0
                       THEN Scanned(bytesLiteral(bytesliteral.val), bytesliteral.pos)
                       ELSE LET boolLit == scanBoolLiteral(b, offset)
                            IN IF boolLit.pos >= 0
                               THEN Scanned(booleanLiteral(boolLit.val), boolLit.pos)
                               ELSE Scanned(NoExpr, NoMatch)

(* Operator tables.  The file that declares unaryOps and binaryOps is not  *)
(* among the sources; the tables are those of the language description:    *)
(* unary - and !, and six binary levels, a larger number binding tighter.  *)

unaryOps == <<[op |-> "-"], [op |-> "!"]>>

binaryOps ==
    << [op |-> "||", precedence |-> 1],
       [op |-> "&&", precedence |-> 2],
       [op |-> "==", precedence |-> 3],
       [op |-> "!=", precedence |-> 3],
       [op |-> "<",  precedence |-> 4],
       [op |-> "<=", precedence |-> 4],
       [op |-> ">",  precedence |-> 4],
       [op |-> ">=", precedence |-> 4],
       [op |-> "+",  precedence |-> 5],
       [op |-> "-",  precedence |-> 5],
       [op |-> "*",  precedence |-> 6],
       [op |-> "/",  precedence |-> 6],
       [op |-> "%",  precedence |-> 6] >>

NoOp == [op |-> "", precedence |-> 0]

\* A scan for a unary operator that does not look for an integer literal first.
scanUnaryOpGreedy(b, offset) ==
    LET hits == {i \in 1..Len(unaryOps) : scanTok(b, offset, unaryOps[i].op) >= 0}
    IN IF hits = {} THEN [op |-> NoOp, pos |-> NoMatch]
       ELSE LET i == CHOOSE j \in hits : \A k \in hits : j <= k
            IN [op |-> unaryOps[i], pos |-> scanTok(b, offset, unaryOps[i].op)]

scanUnaryOp(b, offset) ==
    IF scanIntLiteral(b, offset).pos >= 0 THEN [op |-> NoOp, pos |-> NoMatch]
    ELSE LET hits == {i \in 1..Len(unaryOps) : scanTok(b, offset, unaryOps[i].op) >= 0}
         IN IF hits = {} THEN [op |-> NoOp, pos |-> NoMatch]
            ELSE LET i == CHOOSE j \in hits : \A k \in hits : j <= k
                 IN [op |-> unaryOps[i], pos |-> scanTok(b, offset, unaryOps[i].op)]

\* The scan over binaryOps from index i on, found being the index kept so far
\* (0: none): a later operator replaces it only when strictly longer.
RECURSIVE binaryLoop(_, _, _, _)
binaryLoop(b, offset, i, found) ==
    IF i > Len(binaryOps) THEN found
    ELSE IF scanTok(b, offset, binaryOps[i].op) >= 0
            /\ (found = 0 \/ Len(binaryOps[i].op) > Len(binaryOps[found].op))
         THEN binaryLoop(b, offset, i + 1, i)
         ELSE binaryLoop(b, offset, i + 1, found)

scanBinaryOp(b, offset0) ==
    LET offset == skipWsAndComments(b, offset0)
        found == binaryLoop(b, offset, 1, 0)
    IN IF found = 0 THEN [op |-> NoOp, pos |-> NoMatch]
       ELSE [op |-> binaryOps[found], pos |-> scanTok(b, offset, binaryOps[found].op)]

\* peek functions, at the parser's position
peekKeyword == scanIdentifier(buf, pos).name

peekTok(token) == scanTok(buf, pos, token) >= 0

\* The type names (the table `types` is declared outside the sources).
types ==
    {"Asset", "Amount", "Integer", "Boolean", "PublicKey", "Signature",
     "String", "Hash", "Program", "Time"}

----------------------------------------------------------------------------
(* The parser.  stack holds the active parseX calls, innermost first.  A   *)
(* frame is the function's name, the place pc it has reached, its locals   *)
(* v, and two observations that are not program state: entry, p.pos at the *)
(* call, and mark, p.pos when the current iteration of its loop began      *)
(* (-1 before the first).  returned is the last completed call: its        *)
(* function, p.pos at its call and at its return, and its value.           *)

NewFrame(fn, locals) == [fn |-> fn, pc |-> 0, entry |-> pos, mark |-> -1, v |-> locals]

Top == Head(stack)

Running(fn) == pc = "parsing" /\ stack # <<>> /\ Top.fn = fn

At_(n, locals) == [Top EXCEPT !.pc = n, !.v = locals]

Goto(n) == [Top EXCEPT !.pc = n]

\* The top frame goes on as frame, at position p.
Step(frame, p) ==
    /\ stack' = <<frame>> \o Tail(stack)
    /\ pos' = p
    /\ UNCHANGED <<buf, returned, thrown, err, contracts, pc, diag>>

\* The top frame goes on as frame, at position p, and calls fn.
Call(fn, locals, frame, p) ==
    /\ stack' = <<[fn |-> fn, pc |-> 0, entry |-> p, mark |-> -1, v |-> locals], frame>>
                   \o Tail(stack)
    /\ pos' = p
    /\ UNCHANGED <<buf, returned, thrown, err, contracts, pc, diag>>

\* The top frame returns val, leaving the position at p.
Return(val, p) ==
    /\ stack' = Tail(stack)
    /\ returned' = [fn |-> Top.fn, entry |-> Top.entry, exit |-> p, val |-> val]
    /\ pos' = p
    /\ UNCHANGED <<buf, thrown, err, contracts, pc, diag>>

NoErr == [set |-> FALSE, buf |-> "", offset |-> 0, format |-> "", args |-> <<>>]

parserErr(b, offset, format, args) ==
    [set |-> TRUE, buf |-> b, offset |-> offset, format |-> format, args |-> args]

\* panic(e) with e a parserErr, the position being p: no frame runs on.
Panic(e, p) ==
    /\ thrown' = e
    /\ pc' = "panicking"
    /\ pos' = p
    /\ UNCHANGED <<buf, stack, returned, err, contracts, diag>>

errorf(format, args) == Panic(parserErr(buf, pos, format, args), pos)

\* consume functions: the top frame goes on as next once the token is taken
consumeKeyword(keyword, next) ==
    LET p == scanKeyword(buf, pos, keyword)
    IN IF p < 0 THEN errorf("expected keyword %s", <<keyword>>) ELSE Step(next, p)

consumeIdentifier(next) ==
    LET r == scanIdentifier(buf, pos)
    IN IF r.pos < 0 THEN errorf("expected identifier", <<>>) ELSE Step(next[r.name], r.pos)

\* A consume that stores what scanTok returned, match or no match.
consumeTokUnchecked(token, next) == Step(next, scanTok(buf, pos, token))

consumeTok(token, next) ==
    LET p == scanTok(buf, pos, token)
    IN IF p < 0 THEN errorf("expected %s token", <<token>>) ELSE Step(next, p)

\* A consume function followed by a call, or by the return, of the top frame.
consumeKeywordCall(keyword, fn, locals, next) ==
    LET p == scanKeyword(buf, pos, keyword)
    IN IF p < 0 THEN errorf("expected keyword %s", <<keyword>>)
       ELSE Call(fn, locals, next, p)

consumeTokCall(token, fn, locals, next) ==
    LET p == scanTok(buf, pos, token)
    IN IF p < 0 THEN errorf("expected %s token", <<token>>) ELSE Call(fn, locals, next, p)

consumeTokReturn(token, val) ==
    LET p == scanTok(buf, pos, token)
    IN IF p < 0 THEN errorf("expected %s token", <<token>>) ELSE Return(val, p)

(* Declarations *)

Param(name, type) == [Name |-> name, Type |-> type]

Contract(name, params, clauses, value) ==
    [Name |-> name, Params |-> params, Clauses |-> clauses, Value |-> value]

parse ==
    /\ Running("parse")
    /\ IF Top.pc = 0
       THEN Call("parseContracts", [result |-> <<>>], Goto(1), pos)
       ELSE /\ contracts' = returned.val
            /\ stack' = <<>>
            /\ pc' = "done"
            /\ UNCHANGED <<buf, pos, returned, thrown, err, diag>>

\* A deferred function that hands back what parseContracts had gathered.
recoverKeeping ==
    /\ pc = "panicking"
    /\ err' = thrown
    /\ contracts' = stack[Len(stack) - 1].v.result
    /\ stack' = <<>>
    /\ pc' = "done"
    /\ UNCHANGED <<buf, pos, returned, thrown, diag>>

\* parse's deferred function, run by a panic: the frames are gone, the parserErr
\* is the error returned, and contracts keeps its zero value.
recover ==
    /\ pc = "panicking"
    /\ err' = thrown
    /\ stack' = <<>>
    /\ pc' = "done"
    /\ UNCHANGED <<buf, pos, returned, thrown, contracts, diag>>

appendContract(result, contract) == Append(result, contract)

parseContracts ==
    /\ Running("parseContracts")
    /\ CASE Top.pc = 0 ->
              Call("parseImportDirectives", [result |-> <<>>], Goto(1), pos)
         [] Top.pc = 1 ->
              IF scanKeyword(buf, pos, "contract") < 0
              THEN errorf("expected contract", <<>>)
              ELSE Step(At_(2, [result |-> Top.v.result \o returned.val]), pos)
         [] Top.pc = 2 ->
              IF peekKeyword = "contract"
              THEN Call("parseContract",
                        [name |-> "", params |-> <<>>, amount |-> "", asset |-> ""],
                        [Goto(3) EXCEPT !.mark = pos], pos)
              ELSE Return(Top.v.result, pos)
         [] Top.pc = 3 ->
              Step(At_(2, [result |-> appendContract(Top.v.result, returned.val)]), pos)

parseContract ==
    /\ Running("parseContract")
    /\ CASE Top.pc = 0 -> consumeKeyword("contract", Goto(1))
         [] Top.pc = 1 ->
              consumeIdentifier([name \in STRING |-> [Goto(2) EXCEPT !.v.name = name]])
         [] Top.pc = 2 ->
              Call("parseParams", [params |-> <<>>, first |-> TRUE], Goto(3), pos)
         [] Top.pc = 3 ->
              consumeKeyword("locks", [Goto(4) EXCEPT !.v.params = returned.val])
         [] Top.pc = 4 ->
              consumeIdentifier([name \in STRING |-> [Goto(5) EXCEPT !.v.amount = name]])
         [] Top.pc = 5 -> consumeKeyword("of", Goto(6))
         [] Top.pc = 6 ->
              consumeIdentifier([name \in STRING |-> [Goto(7) EXCEPT !.v.asset = name]])
         [] Top.pc = 7 ->
              consumeTokCall("{", "parseClauses", [clauses |-> <<>>], Goto(8))
         [] Top.pc = 8 ->
              consumeTokReturn("}", Contract(Top.v.name, Top.v.params, returned.val,
                                             [Amount |-> Top.v.amount, Asset |-> Top.v.asset]))

parseParams ==
    /\ Running("parseParams")
    /\ CASE Top.pc = 0 -> consumeTok("(", Goto(1))
         [] Top.pc = 1 ->
              IF ~peekTok(")")
              THEN IF Top.v.first
                   THEN Call("parseParamsType", [params |-> <<>>],
                             [At_(2, [Top.v EXCEPT !.first = FALSE]) EXCEPT !.mark = pos], pos)
                   ELSE consumeTokCall(",", "parseParamsType", [params |-> <<>>],
                                       [Goto(2) EXCEPT !.mark = pos])
              ELSE Return(Top.v.params, scanTok(buf, pos, ")"))
         [] Top.pc = 2 ->
              Step(At_(1, [Top.v EXCEPT !.params = @ \o returned.val]), pos)

parseClauses ==
    /\ Running("parseClauses")
    /\ IF Top.pc = 0
       THEN IF ~peekTok("}")
            THEN Call("parseClause", [Name |-> "", Params |-> <<>>],
                      [Goto(1) EXCEPT !.mark = pos], pos)
            ELSE Return(Top.v.clauses, pos)
       ELSE Step(At_(0, [clauses |-> Append(Top.v.clauses, returned.val)]), pos)

parseParamsType ==
    /\ Running("parseParamsType")
    /\ CASE Top.pc = 0 ->
              consumeIdentifier([firstName \in STRING |-> At_(1, [params |-> <<Param(firstName, "")>>])])
         [] Top.pc = 1 ->
              IF peekTok(",")
              THEN Step([Goto(2) EXCEPT !.mark = pos], scanTok(buf, pos, ","))
              ELSE consumeTok(":", Goto(3))
         [] Top.pc = 2 ->
              consumeIdentifier(
                  [name \in STRING |-> At_(1, [params |-> Append(Top.v.params, Param(name, ""))])])
         [] Top.pc = 3 ->
              LET r == scanIdentifier(buf, pos)
              IN IF r.pos < 0 THEN errorf("expected identifier", <<>>)
                 ELSE IF r.name \in types
                 THEN Return([i \in 1..Len(Top.v.params) |-> Param(Top.v.params[i].Name, r.name)],
                             r.pos)
                 ELSE Panic(parserErr(buf, r.pos, "unknown type %s", <<r.name>>), r.pos)

parseClause ==
    /\ Running("parseClause")
    /\ CASE Top.pc = 0 -> consumeKeyword("clause", Goto(1))
         [] Top.pc = 1 ->
              consumeIdentifier([name \in STRING |-> [Goto(2) EXCEPT !.v.Name = name]])
         [] Top.pc = 2 ->
              Call("parseParams", [params |-> <<>>, first |-> TRUE], Goto(3), pos)
         [] Top.pc = 3 ->
              consumeTokCall("{", "parseStatements", [statements |-> <<>>],
                             [Goto(4) EXCEPT !.v.Params = returned.val])
         [] Top.pc = 4 ->
              consumeTokReturn("}", [Name |-> Top.v.Name, Params |-> Top.v.Params,
                                     statements |-> returned.val])

parseStatements ==
    /\ Running("parseStatements")
    /\ IF Top.pc = 0
       THEN IF ~peekTok("}")
            THEN Call("parseStatement", [x |-> 0], [Goto(1) EXCEPT !.mark = pos], pos)
            ELSE Return(Top.v.statements, pos)
       ELSE Step(At_(0, [statements |-> Append(Top.v.statements, returned.val)]), pos)

(* Statements *)

NoLocals == [x |-> 0]

ExprLocals == [expr |-> NoExpr]

\* A statement parser that hands back no statement at a word it does not know.
parseStatementLenient ==
    /\ Running("parseStatement")
    /\ IF Top.pc = 0
       THEN CASE peekKeyword = "if" -> Call("parseIfStmt", [condition |-> NoExpr, trueBody |-> <<>>], Goto(1), pos)
              [] peekKeyword = "define" -> Call("parseDefineStmt", [name |-> "", type |-> ""], Goto(1), pos)
              [] peekKeyword = "assign" -> Call("parseAssignStmt", [varName |-> ""], Goto(1), pos)
              [] peekKeyword = "verify" -> Call("parseVerifyStmt", NoLocals, Goto(1), pos)
              [] peekKeyword = "lock" -> Call("parseLockStmt", [lockedAmount |-> NoExpr, lockedAsset |-> NoExpr], Goto(1), pos)
              [] peekKeyword = "unlock" -> Call("parseUnlockStmt", [unlockedAmount |-> NoExpr], Goto(1), pos)
              [] OTHER -> Return(NoExpr, pos)
       ELSE Return(returned.val, pos)

parseStatement ==
    /\ Running("parseStatement")
    /\ IF Top.pc = 0
       THEN CASE peekKeyword = "if" -> Call("parseIfStmt", [condition |-> NoExpr, trueBody |-> <<>>], Goto(1), pos)
              [] peekKeyword = "define" -> Call("parseDefineStmt", [name |-> "", type |-> ""], Goto(1), pos)
              [] peekKeyword = "assign" -> Call("parseAssignStmt", [varName |-> ""], Goto(1), pos)
              [] peekKeyword = "verify" -> Call("parseVerifyStmt", NoLocals, Goto(1), pos)
              [] peekKeyword = "lock" -> Call("parseLockStmt", [lockedAmount |-> NoExpr, lockedAsset |-> NoExpr], Goto(1), pos)
              [] peekKeyword = "unlock" -> Call("parseUnlockStmt", [unlockedAmount |-> NoExpr], Goto(1), pos)
              [] OTHER -> Panic(parserErr(buf, pos, "unknown keyword \"%s\"", <<peekKeyword>>), pos)
       ELSE Return(returned.val, pos)

parseIfStmt ==
    /\ Running("parseIfStmt")
    /\ CASE Top.pc = 0 -> consumeKeywordCall("if", "parseExpr", ExprLocals, Goto(1))
         [] Top.pc = 1 ->
              consumeTokCall("{", "parseStatements", [statements |-> <<>>],
                             [Goto(2) EXCEPT !.v.condition = returned.val])
         [] Top.pc = 2 ->
              consumeTok("}", [Goto(3) EXCEPT !.v.trueBody = returned.val])
         [] Top.pc = 3 ->
              IF peekKeyword = "else"
              THEN Step(Goto(4), scanKeyword(buf, pos, "else"))
              ELSE Return([kind |-> "ifStatement", condition |-> Top.v.condition,
                           body |-> [trueBody |-> Top.v.trueBody, falseBody |-> <<>>]], pos)
         [] Top.pc = 4 ->
              consumeTokCall("{", "parseStatements", [statements |-> <<>>], Goto(5))
         [] Top.pc = 5 ->
              consumeTokReturn("}", [kind |-> "ifStatement", condition |-> Top.v.condition,
                                     body |-> [trueBody |-> Top.v.trueBody,
                                               falseBody |-> returned.val]])

parseDefineStmt ==
    /\ Running("parseDefineStmt")
    /\ CASE Top.pc = 0 -> consumeKeyword("define", Goto(1))
         [] Top.pc = 1 ->
              consumeIdentifier([name \in STRING |-> [Goto(2) EXCEPT !.v.name = name]])
         [] Top.pc = 2 -> consumeTok(":", Goto(3))
         [] Top.pc = 3 ->
              LET r == scanIdentifier(buf, pos)
              IN IF r.pos < 0 THEN errorf("expected identifier", <<>>)
                 ELSE IF r.name \in types
                 THEN Step([Goto(4) EXCEPT !.v.type = r.name], r.pos)
                 ELSE Panic(parserErr(buf, r.pos, "unknown type %s", <<r.name>>), r.pos)
         [] Top.pc = 4 ->
              IF peekTok("=")
              THEN Call("parseExpr", ExprLocals, Goto(5), scanTok(buf, pos, "="))
              ELSE Return([kind |-> "defineStatement",
                           variable |-> Param(Top.v.name, Top.v.type), expr |-> NoExpr], pos)
         [] Top.pc = 5 ->
              Return([kind |-> "defineStatement",
                      variable |-> Param(Top.v.name, Top.v.type), expr |-> returned.val], pos)

parseAssignStmt ==
    /\ Running("parseAssignStmt")
    /\ CASE Top.pc = 0 -> consumeKeyword("assign", Goto(1))
         [] Top.pc = 1 ->
              consumeIdentifier([varName \in STRING |-> [Goto(2) EXCEPT !.v.varName = varName]])
         [] Top.pc = 2 -> consumeTokCall("=", "parseExpr", ExprLocals, Goto(3))
         [] Top.pc = 3 ->
              Return([kind |-> "assignStatement", variable |-> Param(Top.v.varName, ""),
                      expr |-> returned.val], pos)

parseVerifyStmt ==
    /\ Running("parseVerifyStmt")
    /\ IF Top.pc = 0
       THEN consumeKeywordCall("verify", "parseExpr", ExprLocals, Goto(1))
       ELSE Return([kind |-> "verifyStatement", expr |-> returned.val], pos)

parseLockStmt ==
    /\ Running("parseLockStmt")
    /\ CASE Top.pc = 0 -> consumeKeywordCall("lock", "parseExpr", ExprLocals, Goto(1))
         [] Top.pc = 1 ->
              consumeKeywordCall("of", "parseExpr", ExprLocals,
                                 [Goto(2) EXCEPT !.v.lockedAmount = returned.val])
         [] Top.pc = 2 ->
              consumeKeywordCall("with", "parseExpr", ExprLocals,
                                 [Goto(3) EXCEPT !.v.lockedAsset = returned.val])
         [] Top.pc = 3 ->
              Return([kind |-> "lockStatement", lockedAmount |-> Top.v.lockedAmount,
                      lockedAsset |-> Top.v.lockedAsset, program |-> returned.val], pos)

parseUnlockStmt ==
    /\ Running("parseUnlockStmt")
    /\ CASE Top.pc = 0 -> consumeKeywordCall("unlock", "parseExpr", ExprLocals, Goto(1))
         [] Top.pc = 1 ->
              consumeKeywordCall("of", "parseExpr", ExprLocals,
                                 [Goto(2) EXCEPT !.v.unlockedAmount = returned.val])
         [] Top.pc = 2 ->
              Return([kind |-> "unlockStatement", unlockedAmount |-> Top.v.unlockedAmount,
                      unlockedAsset |-> returned.val], pos)

(* Expressions *)

parseExpr ==
    /\ Running("parseExpr")
    /\ CASE Top.pc = 0 -> Call("parseUnaryExpr", [op |-> NoOp], Goto(1), pos)
         [] Top.pc = 1 ->
              Call("parseExprCont",
                   [lhs |-> returned.val, minPrecedence |-> 0, op |-> NoOp, rhs |-> NoExpr,
                    innerMark |-> -1],
                   Goto(2), pos)
         [] Top.pc = 2 ->
              IF returned.val.pos < 0
              THEN errorf("expected expression", <<>>)
              ELSE Return(returned.val.expr, returned.val.pos)

parseUnaryExpr ==
    /\ Running("parseUnaryExpr")
    /\ CASE Top.pc = 0 ->
              LET r == scanUnaryOp(buf, pos)
              IN IF r.pos < 0
                 THEN Call("parseExpr2", NoLocals, Goto(2), pos)
                 ELSE Call("parseUnaryExpr", [op |-> NoOp], [Goto(1) EXCEPT !.v.op = r.op], r.pos)
         [] Top.pc = 1 -> Return(unaryExpr(Top.v.op, returned.val), pos)
         [] Top.pc = 2 -> Return(returned.val, pos)

\* parseExprCont's locals are lhs, minPrecedence, op and rhs; innerMark observes
\* its inner loop as mark observes the outer one.

\* The outer loop of parseExprCont ends at a scan result r.
stopsOuter(r, minPrecedence) == r.pos < 0 \/ r.op.precedence < minPrecedence

\* An inner loop that goes on only past a strictly tighter operator's equal.
stopsInnerStrict(r2, op) == r2.pos < 0 \/ r2.op.precedence < op.precedence

\* The inner loop of parseExprCont ends at a scan result r2.
stopsInner(r2, op) == r2.pos < 0 \/ r2.op.precedence <= op.precedence

parseExprCont ==
    /\ Running("parseExprCont")
    /\ CASE Top.pc = 0 ->
              LET r == scanBinaryOp(buf, pos)
              IN IF stopsOuter(r, Top.v.minPrecedence)
                 THEN Return([expr |-> Top.v.lhs, pos |-> pos], pos)
                 ELSE Call("parseUnaryExpr", [op |-> NoOp],
                           [Goto(1) EXCEPT !.v.op = r.op, !.mark = pos], r.pos)
         [] Top.pc = 1 ->
              Step([Goto(2) EXCEPT !.v.rhs = returned.val, !.v.innerMark = -1], pos)
         [] Top.pc = 2 ->
              LET r2 == scanBinaryOp(buf, pos)
              IN IF stopsInner(r2, Top.v.op)
                 THEN Step(At_(0, [Top.v EXCEPT
                                     !.lhs = binaryExpr(Top.v.lhs, Top.v.rhs, Top.v.op),
                                     !.rhs = NoExpr]), pos)
                 ELSE Call("parseExprCont",
                           [lhs |-> Top.v.rhs, minPrecedence |-> r2.op.precedence,
                            op |-> NoOp, rhs |-> NoExpr, innerMark |-> -1],
                           [Goto(3) EXCEPT !.v.innerMark = pos], pos)
         [] Top.pc = 3 ->
              IF returned.val.pos < 0
              THEN Return([expr |-> NoExpr, pos |-> NoMatch], returned.val.pos)
              ELSE Step([Goto(2) EXCEPT !.v.rhs = returned.val.expr], returned.val.pos)

parseExpr2 ==
    /\ Running("parseExpr2")
    /\ IF Top.pc = 0
       THEN LET r == scanLiteralExpr(buf, pos)
            IN IF r.panic THEN Panic(parserErr(buf, r.off, r.format, <<>>), pos)
               ELSE IF r.pos >= 0 THEN Return(r.val, r.pos)
               ELSE Call("parseExpr3", [e |-> NoExpr], Goto(1), pos)
       ELSE Return(returned.val, pos)

parseExpr3 ==
    /\ Running("parseExpr3")
    /\ CASE Top.pc = 0 -> Call("parseExpr4", [elts |-> <<>>, first |-> TRUE], Goto(1), pos)
         [] Top.pc = 1 ->
              IF peekTok("(")
              THEN Call("parseArgs", [exprs |-> <<>>, first |-> TRUE],
                        [Goto(2) EXCEPT !.v.e = returned.val], pos)
              ELSE Return(returned.val, pos)
         [] Top.pc = 2 -> Return(callExpr(Top.v.e, returned.val), pos)

parseExpr4 ==
    /\ Running("parseExpr4")
    /\ CASE Top.pc = 0 ->
              IF peekTok("(")
              THEN Call("parseExpr", ExprLocals, Goto(1), scanTok(buf, pos, "("))
              ELSE IF peekTok("[")
              THEN Step(Goto(2), scanTok(buf, pos, "["))
              ELSE LET r == scanIdentifier(buf, pos)
                   IN IF r.pos < 0 THEN errorf("expected identifier", <<>>)
                      ELSE Return(varRef(r.name), r.pos)
         [] Top.pc = 1 -> consumeTokReturn(")", returned.val)
         [] Top.pc = 2 ->
              IF ~peekTok("]")
              THEN IF Top.v.first
                   THEN Call("parseExpr", ExprLocals,
                             [Goto(3) EXCEPT !.v.first = FALSE, !.mark = pos], pos)
                   ELSE consumeTokCall(",", "parseExpr", ExprLocals,
                                       [Goto(3) EXCEPT !.mark = pos])
              ELSE Return(listExpr(Top.v.elts), scanTok(buf, pos, "]"))
         [] Top.pc = 3 ->
              Step([Goto(2) EXCEPT !.v.elts = Append(@, returned.val)], pos)

parseArgs ==
    /\ Running("parseArgs")
    /\ CASE Top.pc = 0 -> consumeTok("(", Goto(1))
         [] Top.pc = 1 ->
              IF ~peekTok(")")
              THEN IF Top.v.first
                   THEN Call("parseExpr", ExprLocals,
                             [Goto(2) EXCEPT !.v.first = FALSE, !.mark = pos], pos)
                   ELSE consumeTokCall(",", "parseExpr", ExprLocals,
                                       [Goto(2) EXCEPT !.mark = pos])
              ELSE Return(Top.v.exprs, scanTok(buf, pos, ")"))
         [] Top.pc = 2 ->
              Step([Goto(1) EXCEPT !.v.exprs = Append(@, returned.val)], pos)

(* Import directives.  parseImportDirectives is declared outside the       *)
(* sources; it is modelled from the language description: each             *)
(* `import "path"` ahead of the first contract loads the path and adds its *)
(* contracts, in order, to the list it returns.                            *)

Bytes(s) == [i \in 1..Len(s) |-> Ord(SubSeq(s, i, i))]

ImportedContract(name) ==
    Contract(name, <<>>,
             <<[Name |-> "spend", Params |-> <<>>,
                statements |-> <<[kind |-> "unlockStatement",
                                  unlockedAmount |-> varRef("a"),
                                  unlockedAsset |-> varRef("b")]>>]>>,
             [Amount |-> "a", Asset |-> "b"])

\* The import resolver: the contracts of the file at a path (none: no such file).
Resolve(path) ==
    IF path = Bytes("./A") THEN <<ImportedContract("A")>>
    ELSE IF path = Bytes("./B") THEN <<ImportedContract("B1"), ImportedContract("B2")>>
    ELSE <<>>

parseImportDirectives ==
    /\ Running("parseImportDirectives")
    /\ IF Top.pc = 0
       THEN IF peekKeyword = "import"
            THEN Step([Goto(1) EXCEPT !.mark = pos], scanKeyword(buf, pos, "import"))
            ELSE Return(Top.v.result, pos)
       ELSE LET r == scanStrLiteral(buf, pos)
            IN IF r.panic THEN Panic(parserErr(buf, r.off, r.format, <<>>), pos)
               ELSE IF r.pos < 0 THEN errorf("expected import path", <<>>)
               ELSE IF Resolve(r.val) = <<>> THEN errorf("cannot import", <<>>)
               ELSE Step(At_(0, [result |-> Top.v.result \o Resolve(r.val)]), r.pos)

----------------------------------------------------------------------------
(* parserErr.Error *)

RECURSIVE Itoa(_)
Itoa(n) ==
    IF n < 10 THEN SubSeq(DigitChars, n + 1, n + 1)
    ELSE Itoa(n \div 10) \o SubSeq(DigitChars, (n % 10) + 1, (n % 10) + 1)

\* fmt.Sprintf with the verbs %d and %s: the text before the first verb, the
\* first argument as the verb prints it, and the rest with the other arguments.
RECURSIVE Sprintf(_, _)
Sprintf(format, args) ==
    LET verbs == {i \in 1..Len(format) - 1 :
                      SubSeq(format, i, i) = "%" /\ SubSeq(format, i + 1, i + 1) \in {"d", "s"}}
    IN IF verbs = {} \/ args = <<>> THEN format
       ELSE LET i == CHOOSE j \in verbs : \A k \in verbs : j <= k
            IN SubSeq(format, 1, i - 1)
               \o (IF SubSeq(format, i + 1, i + 1) = "d" THEN Itoa(Head(args)) ELSE Head(args))
               \o Sprintf(SubSeq(format, i + 2, Len(format)), Tail(args))

\* A loop body that counts the line break as a column of the line it ends.
lineColStepNoReset(b, i, lc) ==
    IF At(b, i) = "\n" THEN <<lc[1] + 1, lc[2] + 1>> ELSE <<lc[1], lc[2] + 1>>

\* The body of Error's loop at index i, lc being <<line, col>>.
lineColStep(b, i, lc) ==
    IF At(b, i) = "\n" THEN <<lc[1] + 1, 0>> ELSE <<lc[1], lc[2] + 1>>

\* Error's loop over the indices lo..hi-1 in order, begun with lc; the range
\* is run as its two halves, one after the other (a line number is never
\* below 1, so the first test does not decide).
RECURSIVE lineColLoop(_, _, _, _)
lineColLoop(b, lo, hi, lc) ==
    IF lc[1] < 1 \/ lo >= hi THEN lc
    ELSE IF hi = lo + 1 THEN lineColStep(b, lo, lc)
    ELSE LET mid == (lo + hi) \div 2
         IN lineColLoop(b, mid, hi, lineColLoop(b, lo, mid, lc))

lineCol(b, offset) == lineColLoop(b, 0, offset, <<1, 0>>)

Error(p) ==
    Sprintf("line %d, col %d: " \o p.format, lineCol(p.buf, p.offset) \o p.args)

\* The caller of parse renders the error it was given.
reportError ==
    /\ pc = "done"
    /\ err.set
    /\ diag = ""
    /\ diag' = Error(err)
    /\ UNCHANGED <<buf, pos, stack, returned, thrown, err, contracts, pc>>

----------------------------------------------------------------------------
(* Input buffers *)

\* One contract with one clause whose body is the statement list body.
UnitHead == "contract C() locks a of b { clause c() { "

Unit(body) == UnitHead \o body \o " } }"

(* Chains of binary operators *)

OperandNames == "abcdefgh"

\* Operators of every precedence level, levels with two operators, and two-byte
\* operators that start with a one-byte one.
ChainOps == {"*", "+", "-", "<", "<=", "==", "&&", "||"}

MaxOps == 3

\* operand (op operand)^k, the i-th operand being the i-th name
RECURSIVE Chains(_)
Chains(k) ==
    IF k = 0 THEN {"a"}
    ELSE {c \o " " \o op \o " " \o SubSeq(OperandNames, k + 1, k + 1) :
              c \in Chains(k - 1), op \in ChainOps}

AllOps == {binaryOps[i].op : i \in 1..Len(binaryOps)}

ChainInputs ==
    {Unit("verify " \o e) : e \in UNION {Chains(k) : k \in 0..MaxOps}}
    \cup {Unit("verify x" \o sep \o op \o sep \o "y") : op \in AllOps, sep \in {"", " "}}
    \cup {Unit("verify " \o e) : e \in {"a - -b", "a--b", "!a && !!b", "a * -b - c", "-a - b",
                                       "a -b", "a <- b", "a < = b", "a &&& b", "a + * b"}}

(* Operands *)

OperandTexts ==
    { "0", "3", "-3", "- 3", "--3", "-0", "007", "-007", "!-3", "-a", "- -3", "-(3)", "-//c\n3",
      "-0x12", "-10x", "x -3", "x - 3", "x--3", "3-3", "-3-3", "3 - -3", "-", "-!3",
      MaxInt64Mag, MinInt64Mag, "-" \o MaxInt64Mag, "-" \o MinInt64Mag,
      "-9223372036854775809", "000" \o MaxInt64Mag, "000" \o MinInt64Mag,
      "99999999999999999999", "-99999999999999999999", "- " \o MinInt64Mag,
      "'s\\n\\q'", "\"a'b\"", "'open", "true", "false", "truely", "f()", "f(x, 3)", "f(x 3)",
      "[]", "[x, 3]", "[x 3]", "[x", "(x", "x", "0x12", "0x", "1x" }

\* What stands before and after an operand.
Contexts ==
    { <<"", "">>, <<"f(", ")">>, <<"[", ", x]">>, <<"(", ")">>, <<"x + ", "">>,
      <<"", " * x">>, <<"\n // c\n ", " // d">> }

OperandInputs == {Unit("verify " \o c[1] \o t \o c[2]) : t \in OperandTexts, c \in Contexts}

(* Hex literals *)

MaxHexDigits == 5

HexDigitsText == "1a2B3c4D5e6F7"

HexInputs ==
    { UnitHead \o lead \o prefix \o SubSeq(HexDigitsText, 1, n) \o follow :
        lead \in {"verify ", "verify(", "verify\n", "verify\n  // c\n\t", "lock 1 of ",
                  "verify x == "},
        prefix \in {"0x", "0X"},
        n \in 1..MaxHexDigits,
        follow \in {"", " ", "g", ")", "\n", " + 1", " } }", "}}", "//"} }

(* Units: import directives, contracts, and what follows the last contract *)

MaxImports == 2

MaxContracts == 2

ImportTexts == {"import \"./A\"\n", "import './B' "}

BadImportTexts == {"import x ", "import \"./Z\" ", "import \"./A", "import", "import 3 "}

ContractTexts ==
    { "contract K() locks a of b { clause c() { unlock a of b } }",
      "contract L(x, y: Integer, k: PublicKey) locks v of w {\n  clause p(s: Signature) { verify checkTxSig(k, s) unlock v of w }\n  clause q() { lock v of w with k }\n}",
      "contract E() locks a of b { }" }

TrailerTexts ==
    { "", " \n", "// end", "// end\n", " x", " contrakt D() locks a of b { clause c() { unlock a of b } }",
      " }", " contract", " import \"./A\"", " 0",
      " x contract Z() locks a of b { clause c() { unlock a of b } }" }

RECURSIVE Repeat(_, _)
\* The concatenations of k texts of set, each followed by a line break.
Repeat(set, k) ==
    IF k = 0 THEN {""} ELSE {s \o t \o "\n" : s \in Repeat(set, k - 1), t \in set}

ImportSeqs == UNION {Repeat(ImportTexts, k) : k \in 0..MaxImports}

ContractSeqs == UNION {Repeat(ContractTexts, k) : k \in 1..MaxContracts}

UnitInputs ==
    {i \o c : i \in ImportSeqs, c \in ContractSeqs}
    \cup {c \o t : c \in ContractSeqs, t \in TrailerTexts}
    \cup {i \o j \o " contract" : i \in ImportSeqs, j \in BadImportTexts}
    \cup {"", " ", "// nothing", "import \"./A\"", "contrac"}

(* Every prefix of a unit that uses every construct *)

FullText ==
    "// sample\ncontract Full(x, y: Integer, k: PublicKey) locks amt of ast {\n"
    \o "  clause one(s: Signature, n: Amount) {\n"
    \o "    define z: Integer = -x + y * 2\n"
    \o "    define w: Hash\n"
    \o "    assign w = sha3('a\\n')\n"
    \o "    verify checkTxMultiSig([k], [s]) && !(z >= 0x1f)\n"
    \o "    if n < amt { lock n of ast with k } else { unlock amt of ast } // done\n"
    \o "    if z == 1 { verify true }\n"
    \o "  }\n}\n"

Prefixes(text) == {SubSeq(text, 1, n) : n \in 0..Len(text)}

\* compiler/equitytest/RepayCollateral
RepayCollateral ==
    "contract RepayCollateral(assetRepayed: Asset,\n"
    \o "                        amountRepayed: Amount,\n"
    \o "                        RepayBlockHeight: Integer,\n"
    \o "                        lender: Program,\n"
    \o "                        borrower: Program) locks valueAmount of valueAsset {\n"
    \o "  clause repay() {\n"
    \o "    verify below(RepayBlockHeight)\n"
    \o "    lock amountRepayed of assetRepayed with lender\n"
    \o "    lock valueAmount of valueAsset with borrower\n"
    \o "  }\n"
    \o "  clause default() {\n"
    \o "    verify above(RepayBlockHeight)\n"
    \o "    lock valueAmount of valueAsset with lender\n"
    \o "  }\n"
    \o "}\n"

StatementInputs ==
    {Unit(body) : body \in
        { "define z: Integer = 1", "define z: Int", "define z Integer", "define : Integer",
          "assign z = 1", "assign z 1", "assign = 1", "lock 1 of b", "lock 1 with b",
          "unlock 1", "if a { } else { }", "if a { } else", "if a verify b", "if { }",
          "verify", "verif a", "", "}", "verify a verify b",
          "lock a of b with c unlock d of e" }}
    \cup { "contract C(x) locks a of b { }", "contract C(x: Int) locks a of b { }",
           "contract C(x: Integer,) locks a of b { }", "contract C(x: Integer y: Integer) locks a of b { }",
           "contract C(x, : Integer) locks a of b { }", "contract C(: Integer) locks a of b { }",
           "contract C() lock a of b { }", "contract C() locks a b { }", "contract () locks a of b { }",
           "contract C() locks a of b { clause () { } }", "contract C() locks a of b { clause c { } }",
           "contract C() locks a of b { clause c() } }", "contract C() locks a of b { clause c() { }",
           "contract C() locks a of b clause c() { } }", "contract C() locks of b { }",
           "contract C() locks a of { }", "contract C( locks a of b { }" }

Inputs ==
    ChainInputs \cup OperandInputs \cup HexInputs \cup UnitInputs \cup StatementInputs
    \cup Prefixes(FullText) \cup {RepayCollateral}

Init ==
    /\ buf \in Inputs
    /\ pos = 0
    /\ stack = <<NewFrame("parse", NoLocals)>>
    /\ returned = [fn |-> "", entry |-> 0, exit |-> 0, val |-> NoExpr]
    /\ thrown = NoErr
    /\ err = NoErr
    /\ contracts = <<>>
    /\ pc = "parsing"
    /\ diag = ""

Next ==
    \/ parse
    \/ recover
    \/ parseContracts
    \/ parseImportDirectives
    \/ parseContract
    \/ parseParams
    \/ parseClauses
    \/ parseParamsType
    \/ parseClause
    \/ parseStatements
    \/ parseStatement
    \/ parseIfStmt
    \/ parseDefineStmt
    \/ parseAssignStmt
    \/ parseVerifyStmt
    \/ parseLockStmt
    \/ parseUnlockStmt
    \/ parseExpr
    \/ parseUnaryExpr
    \/ parseExprCont
    \/ parseExpr2
    \/ parseExpr3
    \/ parseExpr4
    \/ parseArgs
    \/ reportError

Spec == Init /\ [][Next]_vars

----------------------------------------------------------------------------
(* Properties *)

Done == pc = "done"

Succeeded == Done /\ ~err.set

Failed == Done /\ err.set

(* Reading a buffer without the parser: which bytes are code.  A byte is   *)
(* taken as code when no // precedes it on its line and the quote marks    *)
(* before it on its line pair up.                                          *)

LineStart(b, j) ==
    LET nl == {k \in 0..j - 1 : At(b, k) = "\n"}
    IN IF nl = {} THEN 0 ELSE 1 + CHOOSE k \in nl : \A m \in nl : m <= k

IsCode(b, j) ==
    LET s == LineStart(b, j)
    IN /\ ~ \E k \in s..j - 1 : HasPrefix(b, k, "//")
       /\ Cardinality({k \in s..j - 1 : At(b, k) = "\""}) % 2 = 0
       /\ Cardinality({k \in s..j - 1 : At(b, k) = "'"}) % 2 = 0

\* Open braces less closed braces in the code before j.
BraceDepth(b, j) ==
    Cardinality({k \in 0..j - 1 : At(b, k) = "{" /\ IsCode(b, k)})
    - Cardinality({k \in 0..j - 1 : At(b, k) = "}" /\ IsCode(b, k)})

\* The offsets at which a contract is declared at the top level: the word
\* contract, in code, inside no braces, with a name after it.
DeclaredAt(b) ==
    {j \in 0..Len(b) - 8 :
        /\ HasPrefix(b, j, "contract")
        /\ (j = 0 \/ ~isIDChar(At(b, j - 1), FALSE))
        /\ scanKeyword(b, j, "contract") = j + 8
        /\ scanIdentifier(b, j + 8).pos >= 0
        /\ IsCode(b, j)
        /\ BraceDepth(b, j) = 0}

LastDeclared(b) ==
    LET j == CHOOSE k \in DeclaredAt(b) : \A m \in DeclaredAt(b) : m <= k
    IN scanIdentifier(b, j + 8).name

\* C1: after a successful parse the last contract of the returned list is the
\* last contract declared in the top-level buffer.
C1_LastIsLastDeclared ==
    (Succeeded /\ DeclaredAt(buf) # {})
        => contracts[Len(contracts)].Name = LastDeclared(buf)

\* parse has returned one of its two results: a list with a contract in it and
\* no error, or no contract and a parserErr of this buffer at one of its offsets.
ReturnsListOrError ==
    Done => \/ ~err.set /\ contracts # <<>>
            \/ /\ err.set
               /\ contracts = <<>>
               /\ err.buf = buf
               /\ err.offset \in 0..Len(buf)

\* A step taken once an error was raised: the panic goes to parse's deferred
\* function and nowhere else, and from the panic on the position, the nodes
\* produced and the list stay as they were.
StepAfterError ==
    /\ pc = "panicking" => /\ pc' = "done"
                           /\ err' = thrown
                           /\ thrown.set
    /\ (pc = "panicking" \/ Failed) => /\ pos' = pos
                                       /\ returned' = returned
                                       /\ contracts' = contracts
                                       /\ contracts = <<>>

\* C2: every parse error is fatal: parse returns either a non-empty list and no
\* error, or no contracts and a parserErr with the buffer and an offset; once an
\* error is raised no token is consumed and no node is produced.
C2_ErrorsAreFatal == []ReturnsListOrError /\ [][StepAfterError]_vars

\* C2's case: an error raised after a whole contract had been parsed.
C2_Witness == Failed /\ returned.fn = "parseContract" /\ contracts = <<>>

(* Expression trees *)

RECURSIVE PlainTree(_)
\* A tree of binary operators over variable references.
PlainTree(t) ==
    \/ t.kind = "varRef"
    \/ t.kind = "binaryExpr" /\ PlainTree(t.left) /\ PlainTree(t.right)

RECURSIVE WellShaped(_)
\* Under every operator, a left operand that is itself an operation binds at
\* least as tightly, and a right operand that is one binds strictly tighter.
WellShaped(t) ==
    t.kind = "binaryExpr" =>
        /\ WellShaped(t.left)
        /\ WellShaped(t.right)
        /\ t.left.kind = "binaryExpr" => t.left.op.precedence >= t.op.precedence
        /\ t.right.kind = "binaryExpr" => t.right.op.precedence > t.op.precedence

RECURSIVE Flatten(_)
\* The operands and operators of a plain tree, in order.
Flatten(t) ==
    IF t.kind = "binaryExpr" THEN Flatten(t.left) \o t.op.op \o Flatten(t.right)
    ELSE t.name

RECURSIVE SourceText(_, _, _)
\* The bytes of b[from..to) that are neither white space nor comment.
SourceText(b, from, to) ==
    LET offset == skipWsAndComments(b, from)
    IN IF offset >= to THEN "" ELSE At(b, offset) \o SourceText(b, offset + 1, to)

\* b[from..to) holds no parenthesis: operands and operators only.
Unparenthesised(b, from, to) == \A i \in from..to - 1 : At(b, i) \notin {"(", ")"}

\* The buffers whose only expression is operand (op operand)^k, k up to MaxOps.
ChainBuffers == {Unit("verify " \o e) : e \in UNION {Chains(k) : k \in 0..MaxOps}}

\* C3: parseExpr, returning a tree of binary operators over operands, returns
\* the tree in which a tighter operator is nested under a looser neighbour and
\* equal neighbours nest to the left; read in order the tree is the source
\* text, and the text goes on with no further binary operator; a buffer whose
\* expression is such a chain parses.
C3_PrecedenceClimbing ==
    /\ (/\ pc = "parsing"
        /\ returned.fn = "parseExpr"
        /\ PlainTree(returned.val)
        /\ Unparenthesised(buf, returned.entry, returned.exit)) =>
           /\ WellShaped(returned.val)
           /\ Flatten(returned.val) = SourceText(buf, returned.entry, returned.exit)
           /\ scanBinaryOp(buf, returned.exit).pos < 0
    /\ (Done /\ buf \in ChainBuffers) => Succeeded

\* C3's case: a chain of three operators, two equal neighbours nested to the
\* left and a tighter one nested to the right.
C3_Witness ==
    /\ returned.fn = "parseExpr"
    /\ PlainTree(returned.val)
    /\ Unparenthesised(buf, returned.entry, returned.exit)
    /\ returned.val.kind = "binaryExpr"
    /\ returned.val.left.kind = "binaryExpr"
    /\ returned.val.left.op.precedence = returned.val.op.precedence
    /\ returned.val.right.kind = "binaryExpr"

(* Hex literals *)

\* The number of hex digits that follow b[o..o+2).
HexRun(b, o) ==
    CHOOSE n \in 0..Len(b) :
        /\ o + 2 + n <= Len(b)
        /\ \A i \in o + 2..o + 1 + n : isHexDigit(At(b, i))
        /\ o + 2 + n = Len(b) \/ ~isHexDigit(At(b, o + 2 + n))

\* At offset o stands 0x or 0X and then an odd number of hex digits.
OddHexAt(b, o) ==
    /\ HasPrefix(b, o, "0x") \/ HasPrefix(b, o, "0X")
    /\ HexRun(b, o) % 2 = 1

\* Where the operand that a call of parseExpr2 reads begins.
OperandStart(entry) == skipWsAndComments(buf, entry)

\* C4: an operand that is a hex literal of an odd number of digits is never
\* parsed, and the error raised while it is being read is at the literal's 0.
C4_OddHexLiteral ==
    /\ returned.fn = "parseExpr2" => ~OddHexAt(buf, OperandStart(returned.entry))
    /\ pc = "panicking" =>
          \A i \in 1..Len(stack) :
              (stack[i].fn = "parseExpr2" /\ OddHexAt(buf, OperandStart(stack[i].entry)))
                  => thrown.offset = OperandStart(stack[i].entry)

(* Diagnostics *)

\* The number of line breaks in b[0..o).
NewlinesBefore(b, o) == Cardinality({k \in 0..o - 1 : At(b, k) = "\n"})

\* C5: the rendered diagnostic of the error at offset o is "line L, col C: "
\* and the message, L being one more than the line breaks before o and C the
\* bytes between the last line break before o, or the buffer's start, and o.
C5_LineAndColumn ==
    diag # "" =>
        diag = "line " \o Itoa(1 + NewlinesBefore(buf, err.offset))
               \o ", col " \o Itoa(err.offset - LineStart(buf, err.offset))
               \o ": " \o Sprintf(err.format, err.args)

\* C5's case: a rendered error that lies past a line break, inside its line.
C5_Witness ==
    /\ diag # ""
    /\ NewlinesBefore(buf, err.offset) > 0
    /\ err.offset > LineStart(buf, err.offset)

\* C5's other case: a rendered error at the first byte after a line break.
C5_WitnessAtLineStart ==
    /\ diag # ""
    /\ NewlinesBefore(buf, err.offset) > 0
    /\ err.offset = LineStart(buf, err.offset)

(* Signed integers *)

\* The number of decimal digits that stand at b[o..).
DigitRun(b, o) ==
    CHOOSE n \in 0..Len(b) :
        /\ o + n <= Len(b)
        /\ \A i \in o..o + n - 1 : IsDigit(At(b, i))
        /\ o + n = Len(b) \/ ~IsDigit(At(b, o + n))

\* At offset o stands a - and, immediately after it, decimal digits whose value
\* with the sign fits in 64 bits.
MinusDigitsAt(b, o) ==
    /\ o < Len(b)
    /\ At(b, o) = "-"
    /\ DigitRun(b, o + 1) > 0
    /\ ~ParseInt(Slice(b, o, o + 1 + DigitRun(b, o + 1))).err

\* The value a call of parseUnaryExpr returned is - applied to an operand.
ReturnedUnaryMinus ==
    /\ returned.fn = "parseUnaryExpr"
    /\ returned.val.kind = "unaryExpr"
    /\ returned.val.op.op = "-"

\* scanUnaryOp finds no operator where scanIntLiteral finds a literal.
UnaryOpYieldsToInt == scanIntLiteral(buf, pos).pos >= 0 => scanUnaryOp(buf, pos).pos < 0

\* C6 as stated: a - with digits right after it that fit is one negative
\* integerLiteral, and unary - is produced only when the text after the - is
\* not an integer literal.
C6_MinusOnlyBeforeNonLiteral ==
    /\ UnaryOpYieldsToInt
    /\ (returned.fn = "parseUnaryExpr" /\ MinusDigitsAt(buf, OperandStart(returned.entry))) =>
          /\ returned.val.kind = "integerLiteral"
          /\ returned.val.val.neg \/ returned.val.val.mag = "0"
    /\ ReturnedUnaryMinus =>
          scanIntLiteral(buf, OperandStart(returned.entry) + 1).pos < 0

\* C6: scanUnaryOp finds no operator where scanIntLiteral finds a literal; an
\* operand at which scanIntLiteral finds a literal is that integerLiteral, a
\* negative one when it begins with -; and unary - is produced only when the
\* text that begins at the - itself is not an integer literal.
C6_MaximumMunch ==
    /\ UnaryOpYieldsToInt
    /\ (returned.fn = "parseUnaryExpr" /\ scanIntLiteral(buf, returned.entry).pos >= 0) =>
          /\ returned.val = integerLiteral(scanIntLiteral(buf, returned.entry).val)
          /\ returned.exit = scanIntLiteral(buf, returned.entry).pos
          /\ At(buf, OperandStart(returned.entry)) = "-" =>
                returned.val.val.neg \/ returned.val.val.mag = "0"
    /\ (returned.fn = "parseUnaryExpr"
        /\ MinusDigitsAt(buf, OperandStart(returned.entry))
        /\ intLoop(buf, OperandStart(returned.entry) + 1) >= 0) =>
          scanIntLiteral(buf, returned.entry).pos >= 0
    /\ ReturnedUnaryMinus => scanIntLiteral(buf, returned.entry).pos < 0

\* C6's case: an operand -digits parsed as one negative integerLiteral.
C6_Witness ==
    /\ returned.fn = "parseUnaryExpr"
    /\ MinusDigitsAt(buf, OperandStart(returned.entry))
    /\ returned.val.kind = "integerLiteral"
    /\ returned.val.val.neg

\* C6's other case: unary - produced with an integer literal as the text after
\* the operator.
C6_WitnessMinusBeforeLiteral ==
    /\ ReturnedUnaryMinus
    /\ scanIntLiteral(buf, OperandStart(returned.entry) + 1).pos >= 0

(* The 64-bit range, by arithmetic on groups of digits *)

\* The digits d without their leading zeros (one digit at least is kept).
Significant(d) ==
    LET nz == {i \in 1..Len(d) : SubSeq(d, i, i) # "0"}
    IN IF nz = {} THEN "0" ELSE SubSeq(d, CHOOSE i \in nz : \A k \in nz : i <= k, Len(d))

RECURSIVE Value(_)
\* The number that at most seven digits write.
Value(d) ==
    IF d = "" THEN 0
    ELSE 10 * Value(SubSeq(d, 1, Len(d) - 1)) + DigitVal(SubSeq(d, Len(d), Len(d)))

\* sign and digits write a number of [-2^63, 2^63 - 1]: fewer than 19
\* significant digits, or 19 that read in groups of 5, 7 and 7 digits do not
\* pass 92233 7203685 4775807 (4775808 below zero).
InInt64(neg, d) ==
    LET m == Significant(d)
        hi == Value(SubSeq(m, 1, 5))
        mid == Value(SubSeq(m, 6, 12))
        lo == Value(SubSeq(m, 13, 19))
        last == IF neg THEN 4775808 ELSE 4775807
    IN \/ Len(m) < 19
       \/ /\ Len(m) = 19
          /\ \/ hi < 92233
             \/ hi = 92233 /\ mid < 7203685
             \/ hi = 92233 /\ mid = 7203685 /\ lo <= last

\* At offset o stands an integer numeral: an optional - and then digits.
NumeralAt(b, o) == DigitRun(b, IF o < Len(b) /\ At(b, o) = "-" THEN o + 1 ELSE o) > 0

NumeralNeg(b, o) == At(b, o) = "-"

NumeralDigits(b, o) ==
    LET from == IF NumeralNeg(b, o) THEN o + 1 ELSE o
    IN Slice(b, from, from + DigitRun(b, from))

\* At offset o stands an integer numeral outside the 64-bit range.
OutOfRangeAt(b, o) == NumeralAt(b, o) /\ ~InInt64(NumeralNeg(b, o), NumeralDigits(b, o))

\* C7: no operand that is an integer numeral outside [-2^63, 2^63 - 1] is ever
\* parsed (the call that meets it does not return), and an integerLiteral that
\* is produced (one in parentheses is produced by the call inside them) is the
\* numeral of the source: in range, with its sign and its significant digits.
C7_NoOverflow ==
    /\ returned.fn \in {"parseExpr2", "parseUnaryExpr"} =>
          ~OutOfRangeAt(buf, OperandStart(returned.entry))
    /\ (/\ returned.fn = "parseExpr2"
        /\ returned.val.kind = "integerLiteral"
        /\ At(buf, OperandStart(returned.entry)) # "(") =>
          LET o == OperandStart(returned.entry)
          IN /\ NumeralAt(buf, o)
             /\ returned.exit = o + (IF NumeralNeg(buf, o) THEN 1 ELSE 0)
                                  + Len(NumeralDigits(buf, o))
             /\ InInt64(NumeralNeg(buf, o), NumeralDigits(buf, o))
             /\ returned.val.val.mag = Significant(NumeralDigits(buf, o))
             /\ returned.val.val.neg = (NumeralNeg(buf, o) /\ returned.val.val.mag # "0")

\* C7's case: an error raised while an operand that is a numeral out of range
\* is being read.
C7_Witness ==
    /\ pc = "panicking"
    /\ \E i \in 1..Len(stack) :
          /\ stack[i].fn = "parseExpr2"
          /\ OutOfRangeAt(buf, OperandStart(stack[i].entry))

\* C7's other case: the least 64-bit number parsed as an integerLiteral.
C7_WitnessMinInt64 ==
    /\ returned.fn = "parseExpr2"
    /\ returned.val.kind = "integerLiteral"
    /\ returned.val.val = [neg |-> TRUE, mag |-> MinInt64Mag]

(* Units *)

\* C8: every contract of a list returned by a successful parse has a clause.
C8_ContractHasClause ==
    Succeeded => \A i \in 1..Len(contracts) : contracts[i].Clauses # <<>>

\* C9: parse succeeds only when nothing but white space and comments stands
\* after the closing brace of the last contract it parsed.
C9_WholeBufferParsed ==
    Succeeded => skipWsAndComments(buf, pos) = Len(buf)

(* Progress *)

\* Where a function's loop tests its condition (no loop: -1).
LoopHead(fn) ==
    CASE fn = "parseContracts" -> 2
      [] fn = "parseImportDirectives" -> 0
      [] fn = "parseParams" -> 1
      [] fn = "parseParamsType" -> 1
      [] fn = "parseClauses" -> 0
      [] fn = "parseStatements" -> 0
      [] fn = "parseExprCont" -> 0
      [] fn = "parseExpr4" -> 2
      [] fn = "parseArgs" -> 1
      [] OTHER -> -1

\* The running function is back at its loop's test after an iteration.
IterationDone ==
    /\ pc = "parsing"
    /\ stack # <<>>
    /\ Top.pc = LoopHead(Top.fn)
    /\ Top.mark >= 0

\* The inner loop of parseExprCont is back at its test after an iteration.
InnerIterationDone ==
    /\ Running("parseExprCont")
    /\ Top.pc = 2
    /\ Top.v.innerMark >= 0

\* C10: an iteration of a parsing loop that ends without an error ends past
\* the position it began at; a function called anew while a call of it is
\* running is called at a later position; and the position and the end of the
\* white space and comments after it lie in the buffer.  So no loop and no
\* recursion goes round more often than the buffer has bytes.
C10_EveryIterationAdvances ==
    /\ IterationDone => pos > Top.mark
    /\ InnerIterationDone => pos > Top.v.innerMark
    /\ \A i, j \in 1..Len(stack) :
          (i < j /\ stack[i].fn = stack[j].fn) => stack[i].entry > stack[j].entry
    /\ pos \in 0..Len(buf)
    /\ skipWsAndComments(buf, pos) \in pos..Len(buf)

\* C10's case: a statement list inside an if block back at its test after an
\* iteration, the enclosing statement list being in an iteration of its own.
C10_Witness ==
    /\ IterationDone
    /\ Top.fn = "parseStatements"
    /\ \E j \in 2..Len(stack) : stack[j].fn = "parseStatements" /\ stack[j].mark >= 0

\* C10's other case: the buffer ends inside a comment in an unclosed bracket,
\* and the error is raised.
C10_WitnessUnclosed ==
    /\ pc = "panicking"
    /\ skipWsAndComments(buf, pos) = Len(buf)
    /\ pos < Len(buf)
    /\ Top.fn = "parseExpr4"
    /\ Top.pc = 2
    /\ Top.mark >= 0

----------------------------------------------------------------------------
(* What the scanners read.  For each scan function, the indices i of the   *)
(* bytes buf[i] it reads and the bounds <<lo, hi>> of the slices           *)
(* buf[lo:hi] it takes, each under the conditions the function reads or    *)
(* slices it under.                                                        *)

RECURSIVE skipReads(_, _, _)
skipReads(b, offset, inComment) ==
    IF offset >= Len(b) THEN {}
    ELSE LET c == At(b, offset) IN
         IF inComment
         THEN {offset} \cup skipReads(b, offset + 1, c # "\n")
         ELSE IF c = "/" /\ offset < Len(b) - 1
              THEN {offset, offset + 1}
                   \cup (IF At(b, offset + 1) = "/" THEN skipReads(b, offset + 2, TRUE) ELSE {})
              ELSE IF ~IsSpace(c) THEN {offset}
                   ELSE {offset} \cup skipReads(b, offset + 1, FALSE)

scanIdentifierReads(b, offset0) ==
    LET offset == skipWsAndComments(b, offset0)
    IN skipReads(b, offset0, FALSE)
       \cup {i \in offset..idEnd(b, offset, offset) : i < Len(b)}

scanIdentifierSlices(b, offset0) ==
    LET offset == skipWsAndComments(b, offset0)
        i == idEnd(b, offset, offset)
    IN IF i = offset THEN {} ELSE {<<offset, i>>}

\* bytes.HasPrefix compares the first len(prefix) bytes of a slice that long.
scanTokReads(b, offset0, s) ==
    LET offset == skipWsAndComments(b, offset0)
    IN skipReads(b, offset0, FALSE)
       \cup (IF Len(b) - offset >= Len(s) THEN offset..offset + Len(s) - 1 ELSE {})

scanTokSlices(b, offset0) == {<<skipWsAndComments(b, offset0), Len(b)>>}

RECURSIVE intLoopReads(_, _)
intLoopReads(b, i) ==
    IF i < Len(b)
    THEN {i} \cup (IF IsDigit(At(b, i))
                   THEN IF At(b, i) = "0" /\ i < Len(b) - 1
                        THEN {i + 1} \cup (IF At(b, i + 1) \in {"x", "X"} THEN {}
                                           ELSE intLoopReads(b, i + 1))
                        ELSE intLoopReads(b, i + 1)
                   ELSE {})
    ELSE {}

scanIntLiteralReads(b, offset0) ==
    LET start == skipWsAndComments(b, offset0)
        offset == IF start < Len(b) /\ At(b, start) = "-" THEN start + 1 ELSE start
    IN skipReads(b, offset0, FALSE)
       \cup (IF start < Len(b) THEN {start} ELSE {})
       \cup intLoopReads(b, offset)

scanIntLiteralSlices(b, offset0) ==
    LET start == skipWsAndComments(b, offset0)
        offset == IF start < Len(b) /\ At(b, start) = "-" THEN start + 1 ELSE start
        i == intLoop(b, offset)
    IN IF i > offset THEN {<<start, i>>} ELSE {}

RECURSIVE strLoopReads(_, _, _)
strLoopReads(b, offset, i) ==
    IF i >= Len(b) THEN {}
    ELSE IF (At(b, offset) = "'" /\ At(b, i) = "'") \/ (At(b, offset) = "\"" /\ At(b, i) = "\"")
    THEN {offset, i}
    ELSE IF At(b, i) = "\\" /\ i < Len(b) - 1
    THEN {offset, i, i + 1}
         \cup strLoopReads(b, offset, IF scanEscape(At(b, i + 1)).ok THEN i + 2 ELSE i + 1)
    ELSE {offset, i} \cup strLoopReads(b, offset, i + 1)

scanStrLiteralReads(b, offset0) ==
    LET offset == skipWsAndComments(b, offset0)
    IN skipReads(b, offset0, FALSE)
       \cup (IF offset >= Len(b) THEN {}
             ELSE IF ~(At(b, offset) = "'" \/ At(b, offset) = "\"") THEN {offset}
             ELSE {offset} \cup strLoopReads(b, offset, offset + 1))

RECURSIVE bytesLoopReads(_, _)
bytesLoopReads(b, i) ==
    IF i >= Len(b) \/ i = Len(b) - 1 THEN {}
    ELSE IF ~isHexDigit(At(b, i)) THEN {i}
    ELSE IF ~isHexDigit(At(b, i + 1)) THEN {i, i + 1}
    ELSE {i, i + 1} \cup bytesLoopReads(b, i + 2)

scanBytesLiteralReads(b, offset0) ==
    LET offset == skipWsAndComments(b, offset0)
    IN skipReads(b, offset0, FALSE)
       \cup (IF offset + 4 >= Len(b) THEN {}
             ELSE IF At(b, offset) # "0" THEN {offset}
             ELSE IF At(b, offset + 1) # "x" /\ At(b, offset + 1) # "X"
             THEN {offset, offset + 1}
             ELSE IF ~isHexDigit(At(b, offset + 2)) THEN {offset, offset + 1, offset + 2}
             ELSE IF ~isHexDigit(At(b, offset + 3)) THEN offset..offset + 3
             ELSE (offset..offset + 3) \cup bytesLoopReads(b, offset + 4))

scanBytesLiteralSlices(b, offset0) ==
    LET r == scanBytesLiteral(b, offset0)
    IN IF r.panic \/ r.pos < 0 THEN {}
       ELSE {<<skipWsAndComments(b, offset0) + 2, r.pos>>}

\* The tokens that the parser scans for with scanTok.
Tokens ==
    {"(", ")", "{", "}", "[", "]", ",", ":", "="}
    \cup {unaryOps[i].op : i \in 1..Len(unaryOps)}
    \cup {binaryOps[i].op : i \in 1..Len(binaryOps)}

\* The bytes read by the scan functions when called at offset.
scanReads(b, offset) ==
    scanIdentifierReads(b, offset)
    \cup UNION {scanTokReads(b, offset, t) : t \in Tokens}
    \cup scanIntLiteralReads(b, offset)
    \cup scanStrLiteralReads(b, offset)
    \cup scanBytesLiteralReads(b, offset)

\* The slices taken by the scan functions when called at offset.
scanSlices(b, offset) ==
    scanIdentifierSlices(b, offset)
    \cup scanTokSlices(b, offset)
    \cup scanIntLiteralSlices(b, offset)
    \cup scanBytesLiteralSlices(b, offset)

----------------------------------------------------------------------------
(* The position *)

\* Where the tokens end that the scan functions match at offset p.
MatchEnds(b, p) ==
    {e \in {scanIdentifier(b, p).pos, scanStrLiteral(b, p).pos, scanLiteralExpr(b, p).pos}
           \cup {scanTok(b, p, t) : t \in Tokens} : e >= 0}

\* The position is in the buffer, and so is every byte read and every slice
\* taken by a scan function called at it.
PosAndScansInBuffer ==
    /\ pos \in 0..Len(buf)
    /\ scanReads(buf, pos) \subseteq 0..Len(buf) - 1
    /\ \A sl \in scanSlices(buf, pos) : 0 <= sl[1] /\ sl[1] <= sl[2] /\ sl[2] <= Len(buf)

\* The running function is at a test that only peeks.
Peeking ==
    \/ Running("parseContracts") /\ Top.pc = 2
    \/ Running("parseClauses") /\ Top.pc = 0
    \/ Running("parseStatements") /\ Top.pc = 0
    \/ Running("parseStatement") /\ Top.pc = 0

\* A step leaves the position where it is, or moves it forward to the end of a
\* token matched at it; a step that only peeks leaves it.
PosStep ==
    /\ pos' = pos \/ (pos' > pos /\ pos' \in MatchEnds(buf, pos))
    /\ Peeking => pos' = pos

\* C11: the position stays in 0..len(buf) and never decreases (no negative
\* no-match result is stored in it), a peek leaves it unchanged, it changes
\* only to the end of a match, a strictly larger value, and no scan function
\* reads or slices outside the buffer.
C11_PositionInvariants == []PosAndScansInBuffer /\ [][PosStep]_vars

\* C11's case: the parser, after consuming the last byte of the buffer, peeks
\* at the end of the buffer.
C11_Witness ==
    /\ Running("parseContracts")
    /\ Top.pc = 2
    /\ pos = Len(buf)
    /\ pos > 0

====
